---- MODULE Spec2Model ----
(***************************************************************************)
(* Live index reconciliation of the dashboard home page:                   *)
(*   src/Analysis_Tools/app/static/js/home_live_updates.js                 *)
(* class LiveIndicesUpdater, its helpers and its boot wiring.              *)
(*                                                                         *)
(* Representation of JavaScript values                                     *)
(*   number or undefined   <<n>> or <<>>  (Undefined == <<>>)              *)
(*   object                a function from field names to values; a field  *)
(*                         that is missing reads as Undefined (Get)        *)
(*   null object / map     the empty function <<>>                         *)
(*   timestamp string      a record [kind, date, hh, mm, ss]; kind tells   *)
(*                         the shape of the string (TsFull, TsDate, ...)   *)
(*   "HH:MM" label         <<hh, mm>>; zero padded strings of equal length *)
(*                         compare as these pairs compare                  *)
(*   epoch milliseconds    seconds since midnight of the epoch's UTC day   *)
(***************************************************************************)
EXTENDS Integers, Sequences, FiniteSets, Bags, TLC

----------------------------------------------------------------------------
(* Bounds of the model *)

\* longest fast history and longest slow series a backend answer holds
MaxHist == 3
\* fetches of the three poll loops that may be in flight at the same time
MaxInflight == 1
\* start() runs that may be suspended on their first loads at the same time
MaxStartRuns == 2
\* interval timers that may be active before another start() run is traced
MaxTimers == 3 * MaxStartRuns
\* click listeners per card that are traced
MaxListeners == 3

----------------------------------------------------------------------------
VARIABLES
    backend,           \* what each endpoint answers when its fetch succeeds
    today,             \* the local calendar date of the clock, "YYYY-MM-DD"
    chartWidget,       \* marketCharts['marketIndexChart'] exists on the page
    cardEls,           \* the cards whose value and change elements are on the page
    detailEls,         \* the elements of the detail panel that are on the page
    isRunning,
    selectedIndex,
    latestUpstoxData,  \* null (NullObj) or the last /api/live-indices map
    latestNseData,     \* null (NullObj) or the last /api/nse-indices map
    nseBaseChart,      \* { key: { labels, values } }
    nseChartOhlc,      \* { key: { open, high, low, close } }
    upstoxTimer,       \* this._upstoxTimer: a timer id, or NoTimer
    nsePriceTimer,     \* this._nsePriceTimer
    nseChartTimer,     \* this._nseChartTimer
    timers,            \* the interval timers that are active: [id, kind]
    listeners,         \* click listeners this module added to each card
    pending,           \* bag of suspended async calls awaiting their fetch
    cards,             \* per card: what updateIndexCard wrote last
    detail,            \* what updateIndexDetail wrote last
    chart,             \* chart.data of the Chart.js instance
    ev                 \* the handler that ran last, and what it was given

dom_vars == <<chartWidget, cardEls, detailEls>>
mem_vars == <<latestUpstoxData, latestNseData, nseBaseChart, nseChartOhlc>>
display_vars == <<cards, detail, chart>>
timer_vars == <<upstoxTimer, nsePriceTimer, nseChartTimer, timers>>
vars == <<backend, today, dom_vars, isRunning, selectedIndex, mem_vars, timer_vars,
          listeners, pending, display_vars, ev>>

----------------------------------------------------------------------------
(* JavaScript values *)

Undefined == <<>>

Num(n) == <<n>>

\* obj.field
Get(obj, f) == IF f \in DOMAIN obj THEN obj[f] ELSE Undefined

\* a ?? b
Nullish(a, b) == IF a = Undefined THEN b ELSE a

\* the number a defined value holds
NumOf(v) == v[1]

\* (v || 0) on a number or undefined
OrZero(v) == IF v = Undefined THEN 0 ELSE NumOf(v)

\* { ...a, ...b }
Spread(a, b) ==
    [k \in DOMAIN a \cup DOMAIN b |-> IF k \in DOMAIN b THEN b[k] ELSE a[k]]

\* the null reference / an empty object
NullObj == <<>>

Truthy(obj) == obj # NullObj

----------------------------------------------------------------------------
(* Timestamp strings of the fast source, "YYYY-MM-DD HH:MM:SS" *)

\* "YYYY-MM-DD HH:MM:SS"
TsFull(d, h, m, sec) == [kind |-> "full", date |-> d, hh |-> h, mm |-> m, ss |-> sec]

\* "YYYY-MM-DD", a string with a date and no time
TsDate(d) == [kind |-> "date", date |-> d]

\* ""
EmptyStr == [kind |-> "empty"]

\* a timestamp that is no string but a number (epoch milliseconds)
TsNumber == [kind |-> "number"]

\* a timestamp used as a condition: undefined and "" are falsy
StrTruthy(s) == s # Undefined /\ s.kind # "empty"

\* s.startsWith(d) for a ten character date d
StartsWith(s, d) == s.kind \in {"full", "date"} /\ s.date = d

\* the '' label
NoLabel == <<>>

\* parts = s.split(' '); parts.length >= 2 ? parts[1].substring(0, 5) : ''
TsLabel(s) == IF s.kind = "full" THEN <<s.hh, s.mm>> ELSE NoLabel

\* a < b on zero padded "HH:MM" strings
LabelLess(a, b) == a[1] < b[1] \/ (a[1] = b[1] /\ a[2] < b[2])

----------------------------------------------------------------------------
(* Helpers *)

\* the local calendar date of the clock, formatted YYYY-MM-DD
todayDateStr == today

\* a classifier that looks at the first tick of the history
upstoxHistoryIsToday_First(history) ==
    IF history = Undefined \/ Len(history) = 0 THEN FALSE
    ELSE LET firstItem == history[1]
         IN  IF ~StrTruthy(Get(firstItem, "timestamp")) THEN FALSE
             ELSE StartsWith(firstItem.timestamp, todayDateStr)

\* the call raises a TypeError: lastItem.timestamp has no startsWith
upstoxHistoryIsTodayThrows(history) ==
    /\ history # Undefined
    /\ Len(history) > 0
    /\ StrTruthy(Get(history[Len(history)], "timestamp"))
    /\ history[Len(history)].timestamp.kind = "number"

upstoxHistoryIsToday(history) ==
    IF history = Undefined \/ Len(history) = 0 THEN FALSE
    ELSE LET lastItem == history[Len(history)]
         IN  IF ~StrTruthy(Get(lastItem, "timestamp")) THEN FALSE
             ELSE StartsWith(lastItem.timestamp, todayDateStr)

----------------------------------------------------------------------------
(* Render sink: updateIndexCard, updateIndexDetail *)

\* the keys of _cardMap()
Entities == {"nifty50", "banknifty"}

\* Object.keys(data): the payloads list their indices in this order
KeyOrder == <<"nifty50", "banknifty">>
Keys(data) == SelectSeq(KeyOrder, LAMBDA key : key \in DOMAIN data)

\* The modules's memory and display as one record m, so that the calls a
\* handler makes in sequence compose; m.wrote holds the cards the handler
\* has written so far.
Mem ==
    [latestUpstoxData |-> latestUpstoxData, latestNseData |-> latestNseData,
     nseBaseChart |-> nseBaseChart, nseChartOhlc |-> nseChartOhlc,
     cards |-> cards, detail |-> detail, chart |-> chart, threw |-> FALSE,
     wrote |-> {}]

\* the handler raises: m.threw tells the calls that follow not to run
Throw(m) == [m EXCEPT !.threw = TRUE]

SetMem(m) ==
    /\ latestUpstoxData' = m.latestUpstoxData
    /\ latestNseData' = m.latestNseData
    /\ nseBaseChart' = m.nseBaseChart
    /\ nseChartOhlc' = m.nseChartOhlc
    /\ cards' = m.cards
    /\ detail' = m.detail
    /\ chart' = m.chart

\* what updateIndexCard(indexKey, data) leaves on the card: the value text is
\* (data.value || 0), the change text is (data.percentChange ?? 0)
CardText(data) ==
    [value |-> OrZero(Get(data, "value")),
     pct |-> NumOf(Nullish(Get(data, "percentChange"), Num(0)))]

\* a card writer that does not look for the card's elements
updateIndexCard_NoLookup(m, indexKey, data) ==
    IF m.threw \/ indexKey \notin Entities THEN m
    ELSE IF ~Truthy(data) THEN Throw(m)
    ELSE [m EXCEPT !.cards[indexKey] = CardText(data), !.wrote = @ \cup {indexKey}]

\* returns when the card's elements are not on the page; data.value raises a
\* TypeError when data is null
updateIndexCard(m, indexKey, data) ==
    IF m.threw \/ indexKey \notin Entities \/ indexKey \notin cardEls THEN m
    ELSE IF ~Truthy(data) THEN Throw(m)
    ELSE [m EXCEPT !.cards[indexKey] = CardText(data), !.wrote = @ \cup {indexKey}]

\* what updateIndexDetail(indexKey, data) leaves on the detail panel
DetailText(indexKey, data) ==
    [key |-> indexKey,
     value |-> OrZero(Get(data, "value")),
     change |-> NumOf(Nullish(Get(data, "change"), Num(0))),
     pct |-> NumOf(Nullish(Get(data, "percentChange"),
                            Nullish(Get(data, "percent"), Num(0)))),
     open |-> OrZero(Get(data, "open")),
     high |-> OrZero(Get(data, "high")),
     low |-> OrZero(Get(data, "low"))]

\* the elements of the detail panel: selectedIndexName, selectedIndexValue,
\* selectedIndexChange, indexOpen, indexHigh, indexLow
DetailIds == {"name", "value", "change", "open", "high", "low"}

\* the element that shows a field of DetailText
DetailEl(field) ==
    IF field = "key" THEN "name" ELSE IF field = "pct" THEN "change" ELSE field

\* each text is written if its element is on the page
updateIndexDetail(m, indexKey, data) ==
    IF m.threw \/ ~Truthy(data) THEN m
    ELSE LET text == DetailText(indexKey, data)
             shown == {field \in DOMAIN text : DetailEl(field) \in detailEls}
         IN  [m EXCEPT !.detail = Spread(@, [field \in shown |-> text[field]])]

----------------------------------------------------------------------------
(* Chart update: updateChart *)

\* d.getUTCHours(), d.getUTCMinutes() of new Date(ts_ms), ts counting seconds
UTCHours(ts) == (ts \div 3600) % 24
UTCMinutes(ts) == (ts \div 60) % 60

\* a safety net that ends before 15:30
InSession_Before1530(ts) ==
    LET totalMin == UTCHours(ts) * 60 + UTCMinutes(ts)
    IN  ~(totalMin < 9 * 60 \/ totalMin >= 15 * 60 + 30)

\* the safety net keeps 09:00 to 15:30
InSession(ts) ==
    LET totalMin == UTCHours(ts) * 60 + UTCMinutes(ts)
    IN  ~(totalMin < 9 * 60 \/ totalMin > 15 * 60 + 30)

\* `${String(hh).padStart(2, '0')}:${String(mm).padStart(2, '0')}`
HHMM(ts) == <<UTCHours(ts), UTCMinutes(ts)>>

SeqMax(q) == CHOOSE x \in {q[i] : i \in DOMAIN q} : \A i \in DOMAIN q : q[i] <= x

\* a least value that is the greatest
SeqMin_Greatest(q) == CHOOSE x \in {q[i] : i \in DOMAIN q} : \A i \in DOMAIN q : q[i] <= x

SeqMin(q) == CHOOSE x \in {q[i] : i \in DOMAIN q} : \A i \in DOMAIN q : x <= q[i]

\* the NSE branch's loop: labels and values of the points it keeps
NseLabels(series) ==
    LET kept == SelectSeq(series, LAMBDA p : InSession(p[1]))
    IN  [i \in 1..Len(kept) |-> HHMM(kept[i][1])]

\* the prices of all the points, kept or skipped
NseValues_All(series) == [i \in 1..Len(series) |-> series[i][2]]

NseValues(series) ==
    LET kept == SelectSeq(series, LAMBDA p : InSession(p[1]))
    IN  [i \in 1..Len(kept) |-> kept[i][2]]

\* a map that keeps the first value set for a label
MapSet_KeepFirst(map, label, value) ==
    IF \E i \in DOMAIN map : map[i][1] = label
    THEN map
    ELSE Append(map, <<label, value>>)

\* minuteMap.set(label, value) on a Map kept as its entries in insertion order
MapSet(map, label, value) ==
    IF \E i \in DOMAIN map : map[i][1] = label
    THEN [i \in DOMAIN map |-> IF map[i][1] = label THEN <<label, value>> ELSE map[i]]
    ELSE Append(map, <<label, value>>)

\* the Upstox branch's loop over the first n items of the history
RECURSIVE MinuteMap(_, _)
MinuteMap(history, n) ==
    IF n = 0 THEN <<>>
    ELSE LET item == history[n]
             ts == Get(item, "timestamp")
             label == IF StrTruthy(ts) THEN TsLabel(ts) ELSE NoLabel
             before == MinuteMap(history, n - 1)
         IN  IF label # NoLabel THEN MapSet(before, label, item.value) ELSE before

\* the loop raises a TypeError: an item's timestamp has no split
MinuteMapThrows(history) ==
    \E i \in DOMAIN history :
        /\ StrTruthy(Get(history[i], "timestamp"))
        /\ history[i].timestamp.kind = "number"

\* [...minuteMap.keys()] and [...minuteMap.values()]
UpstoxLabels(history) ==
    LET map == MinuteMap(history, Len(history)) IN [i \in DOMAIN map |-> map[i][1]]

UpstoxValues(history) ==
    LET map == MinuteMap(history, Len(history)) IN [i \in DOMAIN map |-> map[i][2]]

\* the merge of the cached NSE base with the Upstox ticks: [labels, values]
Splice(base, upstoxLabels, upstoxValues) ==
    IF Truthy(base) /\ Len(base.labels) > 0 /\ Len(upstoxLabels) > 0
    THEN LET firstUpstoxTime == upstoxLabels[1]
             idx == SelectSeq([i \in 1..Len(base.labels) |-> i],
                              LAMBDA i : LabelLess(base.labels[i], firstUpstoxTime))
         IN  [labels |-> [i \in 1..Len(idx) |-> base.labels[idx[i]]] \o upstoxLabels,
              values |-> [i \in 1..Len(idx) |-> base.values[idx[i]]] \o upstoxValues]
    ELSE [labels |-> upstoxLabels, values |-> upstoxValues]

\* a tail of updateChart that adds the points to those the chart has
Render_Appends(m, labels, values, data) ==
    IF Len(values) = 0 THEN m
    ELSE LET rawPct == Nullish(Get(data, "percentChange"),
                               Nullish(Get(data, "percent"),
                                       Num(values[Len(values)] - values[1])))
         IN  [m EXCEPT !.chart = [labels |-> m.chart.labels \o labels,
                                  values |-> m.chart.values \o values,
                                  positive |-> NumOf(rawPct) >= 0]]

\* a tail of updateChart that renders whatever it is given
Render_Always(m, labels, values, data) ==
    LET rawPct == Nullish(Get(data, "percentChange"),
                          Nullish(Get(data, "percent"),
                                  Num(values[Len(values)] - values[1])))
    IN  [m EXCEPT !.chart = [labels |-> labels, values |-> values,
                             positive |-> NumOf(rawPct) >= 0]]

\* the tail of updateChart: trend colour and chart.update
Render(m, labels, values, data) ==
    IF Len(values) = 0 THEN m
    ELSE LET rawPct == Nullish(Get(data, "percentChange"),
                               Nullish(Get(data, "percent"),
                                       Num(values[Len(values)] - values[1])))
         IN  [m EXCEPT !.chart = [labels |-> labels, values |-> values,
                                  positive |-> NumOf(rawPct) >= 0]]

updateChart(m, indexKey, data) ==
    IF m.threw \/ ~chartWidget THEN m
    ELSE IF Get(data, "series") # Undefined /\ Len(data.series) > 0
    THEN LET labels == NseLabels(data.series)
             values == NseValues(data.series)
             cached ==
                 IF Len(labels) > 0
                 THEN [m EXCEPT
                         !.nseBaseChart = Spread(@, indexKey :>
                             [labels |-> labels, values |-> values]),
                         !.nseChartOhlc = Spread(@, indexKey :>
                             [open |-> Nullish(Get(data, "open"), Num(values[1])),
                              high |-> Nullish(Get(data, "high"), Num(SeqMax(values))),
                              low |-> Nullish(Get(data, "low"), Num(SeqMin(values))),
                              close |-> Nullish(Get(data, "close"),
                                                Num(values[Len(values)]))])]
                 ELSE m
         IN  Render(cached, labels, values, data)
    ELSE IF Get(data, "history") # Undefined /\ Len(data.history) > 0
    THEN IF MinuteMapThrows(data.history) THEN Throw(m) ELSE
         LET merged == Splice(Get(m.nseBaseChart, indexKey),
                              UpstoxLabels(data.history), UpstoxValues(data.history))
         IN  Render(m, merged.labels, merged.values, data)
    ELSE m

----------------------------------------------------------------------------
(* Fetch helpers: what the awaited call may resolve to.  Each helper catches *)
(* every failure (network error, non-2xx, unparsable JSON, success false, an *)
(* empty indices map) and resolves to null then.                             *)

fetchNseChart(indexKey) == {backend.chart[indexKey], NullObj}

fetchNsePrices == {backend.nse, NullObj}

fetchUpstoxData == {backend.fast, NullObj}

----------------------------------------------------------------------------
(* Poll loops, after their fetch has resolved to data (NullObj: the fetch   *)
(* helper caught a failure and returned null)                               *)

\* this.latestUpstoxData && this.latestUpstoxData[key]
UpstoxEntry(m, key) == Get(m.latestUpstoxData, key)

\* this.latestNseData && this.latestNseData[key]
NseEntry(m, key) == Get(m.latestNseData, key)

\* a card loop that writes every card of the slow payload
NseCards_Always(m, data) ==
    [m EXCEPT !.cards =
        [key \in DOMAIN @ |->
            IF key \in DOMAIN data /\ Truthy(data[key])
            THEN CardText(data[key])
            ELSE @[key]]]

\* the card loop of _pollNsePrices over the first n keys of the payload
RECURSIVE NseCardsFrom(_, _, _)
NseCardsFrom(m, data, n) ==
    IF n = 0 THEN m
    ELSE LET prev == NseCardsFrom(m, data, n - 1)
             key == Keys(data)[n]
             upstox == UpstoxEntry(prev, key)
         IN  IF prev.threw THEN prev
             ELSE IF ~Truthy(upstox) THEN updateIndexCard(prev, key, data[key])
             ELSE IF upstoxHistoryIsTodayThrows(Get(upstox, "history")) THEN Throw(prev)
             ELSE IF upstoxHistoryIsToday(Get(upstox, "history")) THEN prev
             ELSE updateIndexCard(prev, key, data[key])

\* the card loop of _pollNsePrices
NseCards(m, data) == NseCardsFrom(m, data, Len(Keys(data)))

pollNsePrices(m, sel, data) ==
    IF ~Truthy(data) THEN m
    ELSE LET m1 == [m EXCEPT !.latestNseData = data]
             m2 == NseCards(m1, data)
             selUpstox == UpstoxEntry(m2, sel)
         IN  IF m2.threw THEN m2
             ELSE IF Truthy(selUpstox)
                     /\ upstoxHistoryIsTodayThrows(Get(selUpstox, "history"))
             THEN Throw(m2)
             ELSE IF ~Truthy(selUpstox) \/ ~upstoxHistoryIsToday(Get(selUpstox, "history"))
             THEN IF Truthy(Get(data, sel))
                  THEN updateIndexDetail(m2, sel, data[sel])
                  ELSE m2
             ELSE m2

pollNseChart(m, sel, data) ==
    IF ~Truthy(data) THEN m
    ELSE LET m1 == updateChart(m, sel, data)
             selUpstox == UpstoxEntry(m1, sel)
         IN  IF Truthy(selUpstox) /\ upstoxHistoryIsTodayThrows(Get(selUpstox, "history"))
             THEN Throw(m1)
             ELSE IF Truthy(selUpstox) /\ upstoxHistoryIsToday(Get(selUpstox, "history"))
             THEN updateChart(m1, sel, selUpstox)
             ELSE m1

\* a detail record that is the fast entry as it came
DetailData_FastOnly(m, key, upstox) == upstox

\* a detail record that takes the slow fields whether or not they exist
DetailData_SlowAlways(m, key, upstox) ==
    LET nseOhlc == Get(m.nseChartOhlc, key)
        nsePrice == Get(m.latestNseData, key)
    IN  [k \in DOMAIN upstox \cup {"open", "high", "low", "change", "percentChange"} |->
            IF k \in {"open", "high", "low"} THEN Get(nseOhlc, k)
            ELSE IF k \in {"change", "percentChange"} THEN Get(nsePrice, k)
            ELSE upstox[k]]

\* the detail record both _pollUpstox and the click handler assemble
DetailData(m, key, upstox) ==
    LET nseOhlc == Get(m.nseChartOhlc, key)
        nsePrice == NseEntry(m, key)
    IN  Spread(Spread(upstox,
                      IF Truthy(nseOhlc)
                      THEN [open |-> nseOhlc.open, high |-> nseOhlc.high,
                            low |-> nseOhlc.low]
                      ELSE NullObj),
               IF Truthy(nsePrice)
               THEN [change |-> Get(nsePrice, "change"),
                     percentChange |-> Get(nsePrice, "percentChange")]
               ELSE NullObj)

\* the card loop of _pollUpstox over the first n keys of the payload
RECURSIVE UpstoxCardsFrom(_, _, _)
UpstoxCardsFrom(m, data, n) ==
    IF n = 0 THEN m
    ELSE LET prev == UpstoxCardsFrom(m, data, n - 1)
             key == Keys(data)[n]
             nseCard == NseEntry(prev, key)
             cardData ==
                 IF Truthy(nseCard)
                 THEN Spread(data[key],
                             [change |-> Get(nseCard, "change"),
                              percentChange |-> Get(nseCard, "percentChange")])
                 ELSE data[key]
         IN  updateIndexCard(prev, key, cardData)

\* the card loop of _pollUpstox
UpstoxCards(m, data) == UpstoxCardsFrom(m, data, Len(Keys(data)))

\* a fast poll that stores whatever its fetch resolved to, null included
pollUpstox_StoresNull(m, selected, data) ==
    LET m1 == [m EXCEPT !.latestUpstoxData = data]
        sel == Get(data, selected)
    IN  IF ~Truthy(sel) THEN m1
        ELSE IF upstoxHistoryIsToday(Get(sel, "history"))
        THEN LET m2 == UpstoxCards(m1, data)
                 m3 == updateIndexDetail(m2, selected,
                                         DetailData(m2, selected, sel))
             IN  updateChart(m3, selected, sel)
        ELSE m1

\* a fast poll without the test of the selected index's history
pollUpstox_AnyDay(m, selected, data) ==
    IF ~Truthy(data) THEN m
    ELSE LET m1 == [m EXCEPT !.latestUpstoxData = data]
             sel == Get(data, selected)
         IN  IF ~Truthy(sel) THEN m1
             ELSE LET m2 == UpstoxCards(m1, data)
                      m3 == updateIndexDetail(m2, selected,
                                              DetailData(m2, selected, sel))
                  IN  updateChart(m3, selected, sel)

\* a fast poll that adds the payload's entries to the stored ones
pollUpstox_Merges(m, selected, data) ==
    IF ~Truthy(data) THEN m
    ELSE LET m1 == [m EXCEPT !.latestUpstoxData = Spread(m.latestUpstoxData, data)]
             sel == Get(data, selected)
         IN  IF ~Truthy(sel) THEN m1
             ELSE IF upstoxHistoryIsTodayThrows(Get(sel, "history")) THEN Throw(m1)
             ELSE IF upstoxHistoryIsToday(Get(sel, "history"))
             THEN LET m2 == UpstoxCards(m1, data)
                      m3 == updateIndexDetail(m2, selected,
                                              DetailData(m2, selected, sel))
                  IN  updateChart(m3, selected, sel)
             ELSE m1

pollUpstox(m, selected, data) ==
    IF ~Truthy(data) THEN m
    ELSE LET m1 == [m EXCEPT !.latestUpstoxData = data]
             sel == Get(data, selected)
         IN  IF ~Truthy(sel) THEN m1
             ELSE IF upstoxHistoryIsTodayThrows(Get(sel, "history")) THEN Throw(m1)
             ELSE IF upstoxHistoryIsToday(Get(sel, "history"))
             THEN LET m2 == UpstoxCards(m1, data)
                      m3 == updateIndexDetail(m2, selected,
                                              DetailData(m2, selected, sel))
                  IN  updateChart(m3, selected, sel)
             ELSE m1

----------------------------------------------------------------------------
(* Suspended async calls.  A call that awaits a fetch is a task in the bag  *)
(* pending until the fetch resolves; any pending task may resume next.      *)

PollUpstoxTask == [op |-> "pollUpstox"]
PollNsePricesTask == [op |-> "pollNsePrices"]
\* _pollNseChart awaiting fetchNseChart(key)
PollNseChartTask(key) == [op |-> "pollNseChart", key |-> key]
\* a click listener awaiting fetchNseChart(indexKey), with its locals
ClickTask(indexKey, selUpstox, hasToday) ==
    [op |-> "click", key |-> indexKey, selUpstox |-> selUpstox, hasToday |-> hasToday]
\* start() awaiting fetchNseChart(key), then _pollNsePrices(), then _pollUpstox()
StartChartTask(key) == [op |-> "startChart", key |-> key]
StartPricesTask == [op |-> "startPrices"]
StartUpstoxTask == [op |-> "startUpstox"]

Spawn(task) == pending (+) SetToBag({task})
Resume(task) == pending (-) SetToBag({task})

\* the pending tasks that run op
Tasks(op) == {t \in BagToSet(pending) : t.op = op}

\* how many pending tasks run one of these ops
Count(ops) ==
    BagCardinality([t \in {u \in BagToSet(pending) : u.op \in ops} |-> pending[t]])

StartOps == {"startChart", "startPrices", "startUpstox"}
PollOps == {"pollUpstox", "pollNsePrices", "pollNseChart"}

----------------------------------------------------------------------------
(* Interval timers *)

\* a timer handle that holds null
NoTimer == 0

\* setInterval returns an id no active timer has
NewTimerId(active) ==
    CHOOSE i \in 1..(Cardinality(active) + 1) :
        /\ \A t \in active : t.id # i
        /\ \A j \in 1..(i - 1) : \E t \in active : t.id = j

\* clearInterval(id); clearInterval(null) does nothing
ClearInterval(active, id) == {t \in active : t.id # id}

----------------------------------------------------------------------------
(* Lifecycle: constructor, start(), stop() *)

Init0 ==
    /\ isRunning = FALSE
    /\ selectedIndex = "nifty50"
    /\ latestUpstoxData = NullObj
    /\ latestNseData = NullObj
    /\ nseBaseChart = NullObj
    /\ nseChartOhlc = NullObj
    /\ upstoxTimer = NoTimer
    /\ nsePriceTimer = NoTimer
    /\ nseChartTimer = NoTimer
    /\ timers = {}
    /\ listeners = 0
    /\ pending = EmptyBag
    /\ cards = [key \in Entities |-> NullObj]
    /\ detail = NullObj
    /\ chart = [labels |-> <<>>, values |-> <<>>, positive |-> TRUE]
    /\ ev = [op |-> "new"]

\* a start() without its isRunning guard
Start_Unguarded ==
    /\ listeners < MaxListeners
    /\ Count(StartOps) < MaxStartRuns
    /\ Cardinality(timers) + 3 * (Count(StartOps) + 1) <= MaxTimers
    /\ isRunning' = TRUE
    /\ listeners' = listeners + 1
    /\ pending' = Spawn(StartChartTask(selectedIndex))
    /\ ev' = [op |-> "start", ran |-> TRUE]
    /\ UNCHANGED <<backend, today, dom_vars, selectedIndex, mem_vars, timer_vars,
                   display_vars>>

\* start() up to its first await: the guard, setupCardClickHandlers (one more
\* click listener on every card) and the call of fetchNseChart
\* a start() that goes back to the selection of the constructor
Start_Reselects ==
    IF isRunning
    THEN /\ ev' = [op |-> "start", ran |-> FALSE]
         /\ UNCHANGED <<backend, today, dom_vars, isRunning, selectedIndex, mem_vars,
                        timer_vars, listeners, pending, display_vars>>
    ELSE /\ listeners < MaxListeners
         /\ Count(StartOps) < MaxStartRuns
         /\ Cardinality(timers) + 3 * (Count(StartOps) + 1) <= MaxTimers
         /\ isRunning' = TRUE
         /\ listeners' = listeners + 1
         /\ selectedIndex' = "nifty50"
         /\ pending' = Spawn(StartChartTask("nifty50"))
         /\ ev' = [op |-> "start", ran |-> TRUE]
         /\ UNCHANGED <<backend, today, dom_vars, mem_vars, timer_vars, display_vars>>

Start ==
    IF isRunning
    THEN /\ ev' = [op |-> "start", ran |-> FALSE]
         /\ UNCHANGED <<backend, today, dom_vars, isRunning, selectedIndex, mem_vars,
                        timer_vars, listeners, pending, display_vars>>
    ELSE /\ listeners < MaxListeners
         /\ Count(StartOps) < MaxStartRuns
         /\ Cardinality(timers) + 3 * (Count(StartOps) + 1) <= MaxTimers
         /\ isRunning' = TRUE
         /\ listeners' = listeners + 1
         /\ pending' = Spawn(StartChartTask(selectedIndex))
         /\ ev' = [op |-> "start", ran |-> TRUE]
         /\ UNCHANGED <<backend, today, dom_vars, selectedIndex, mem_vars, timer_vars,
                        display_vars>>

\* start() resumes with initChart and calls _pollNsePrices()
StartChartDone ==
    \E task \in Tasks("startChart") : \E initChart \in fetchNseChart(task.key) :
        LET done == IF Truthy(initChart)
                    THEN updateChart(Mem, selectedIndex, initChart)
                    ELSE Mem
        IN  /\ SetMem(done)
            /\ pending' = Resume(task) (+) SetToBag({StartPricesTask})
            /\ ev' = [op |-> "startChart", key |-> task.key, ok |-> Truthy(initChart),
                      threw |-> done.threw]
            /\ UNCHANGED <<backend, today, dom_vars, isRunning, selectedIndex,
                           timer_vars, listeners>>

\* a start() that creates its timers right after _pollNsePrices()
StartPricesDone_NoFastPoll ==
    \E data \in fetchNsePrices :
        LET done == pollNsePrices(Mem, selectedIndex, data)
            t1 == [id |-> NewTimerId(timers), kind |-> "nsePrice"]
            t2 == [id |-> NewTimerId(timers \cup {t1}), kind |-> "nseChart"]
            t3 == [id |-> NewTimerId(timers \cup {t1, t2}), kind |-> "upstox"]
        IN  /\ StartPricesTask \in BagToSet(pending)
            /\ SetMem(done)
            /\ pending' = Resume(StartPricesTask)
            /\ nsePriceTimer' = t1.id
            /\ nseChartTimer' = t2.id
            /\ upstoxTimer' = t3.id
            /\ timers' = timers \cup {t1, t2, t3}
            /\ ev' = [op |-> "pollNsePrices", from |-> "start", ok |-> Truthy(data),
                      threw |-> done.threw, cards |-> done.wrote]
            /\ UNCHANGED <<backend, today, dom_vars, isRunning, selectedIndex, listeners>>

\* the _pollNsePrices() of start() resumes; start() calls _pollUpstox(),
\* unless the poll raised, which ends start() with a rejected promise
StartPricesDone ==
    \E data \in fetchNsePrices :
        LET done == pollNsePrices(Mem, selectedIndex, data)
        IN  /\ StartPricesTask \in BagToSet(pending)
            /\ SetMem(done)
            /\ pending' = IF done.threw THEN Resume(StartPricesTask)
                          ELSE Resume(StartPricesTask) (+) SetToBag({StartUpstoxTask})
            /\ ev' = [op |-> "pollNsePrices", from |-> "start", ok |-> Truthy(data),
                      threw |-> done.threw, cards |-> done.wrote]
            /\ UNCHANGED <<backend, today, dom_vars, isRunning, selectedIndex,
                           timer_vars, listeners>>

\* the _pollUpstox() of start() resumes; start() creates its three timers,
\* unless the poll raised
StartUpstoxDone ==
    \E data \in fetchUpstoxData :
        LET done == pollUpstox(Mem, selectedIndex, data)
            t1 == [id |-> NewTimerId(timers), kind |-> "nsePrice"]
            t2 == [id |-> NewTimerId(timers \cup {t1}), kind |-> "nseChart"]
            t3 == [id |-> NewTimerId(timers \cup {t1, t2}), kind |-> "upstox"]
        IN  /\ StartUpstoxTask \in BagToSet(pending)
            /\ SetMem(done)
            /\ pending' = Resume(StartUpstoxTask)
            /\ IF done.threw
               THEN UNCHANGED timer_vars
               ELSE /\ nsePriceTimer' = t1.id
                    /\ nseChartTimer' = t2.id
                    /\ upstoxTimer' = t3.id
                    /\ timers' = timers \cup {t1, t2, t3}
            /\ ev' = [op |-> "pollUpstox", from |-> "start", ok |-> Truthy(data),
                      threw |-> done.threw, cards |-> done.wrote]
            /\ UNCHANGED <<backend, today, dom_vars, isRunning, selectedIndex, listeners>>

\* a stop() that also drops the calls that await a fetch
Stop_Cancels ==
    IF ~isRunning
    THEN /\ ev' = [op |-> "stop", ran |-> FALSE]
         /\ UNCHANGED <<backend, today, dom_vars, isRunning, selectedIndex, mem_vars,
                        timer_vars, listeners, pending, display_vars>>
    ELSE /\ isRunning' = FALSE
         /\ timers' = ClearInterval(ClearInterval(ClearInterval(timers, upstoxTimer),
                                                  nsePriceTimer), nseChartTimer)
         /\ upstoxTimer' = NoTimer
         /\ nsePriceTimer' = NoTimer
         /\ nseChartTimer' = NoTimer
         /\ pending' = EmptyBag
         /\ ev' = [op |-> "stop", ran |-> TRUE]
         /\ UNCHANGED <<backend, today, dom_vars, selectedIndex, mem_vars, listeners,
                        display_vars>>

Stop ==
    IF ~isRunning
    THEN /\ ev' = [op |-> "stop", ran |-> FALSE]
         /\ UNCHANGED <<backend, today, dom_vars, isRunning, selectedIndex, mem_vars,
                        timer_vars, listeners, pending, display_vars>>
    ELSE /\ isRunning' = FALSE
         /\ timers' = ClearInterval(ClearInterval(ClearInterval(timers, upstoxTimer),
                                                  nsePriceTimer), nseChartTimer)
         /\ upstoxTimer' = NoTimer
         /\ nsePriceTimer' = NoTimer
         /\ nseChartTimer' = NoTimer
         /\ ev' = [op |-> "stop", ran |-> TRUE]
         /\ UNCHANGED <<backend, today, dom_vars, selectedIndex, mem_vars, listeners,
                        pending, display_vars>>

----------------------------------------------------------------------------
(* Recurring polls *)

\* an interval timer fires: its callback calls the poll loop, which calls its
\* fetch and is suspended
\* a timer's callback runs while fewer than limit polls await their fetch
TimerTick(limit) ==
    \E t \in timers :
        /\ Count(PollOps) < limit
        /\ \/ /\ t.kind = "upstox"
              /\ pending' = Spawn(PollUpstoxTask)
           \/ /\ t.kind = "nsePrice"
              /\ pending' = Spawn(PollNsePricesTask)
           \/ /\ t.kind = "nseChart"
              /\ pending' = Spawn(PollNseChartTask(selectedIndex))
        /\ ev' = [op |-> "tick", kind |-> t.kind]
        /\ UNCHANGED <<backend, today, dom_vars, isRunning, selectedIndex, mem_vars,
                       timer_vars, listeners, display_vars>>

TimerFires == TimerTick(MaxInflight)

\* setInterval does not wait for the previous callback's fetch: a timer fires
\* again while a poll it started is in flight
MaxOverlap == MaxInflight + 1
TimerRefires == TimerTick(MaxOverlap)

PollUpstoxDone ==
    \E data \in fetchUpstoxData :
        LET done == pollUpstox(Mem, selectedIndex, data)
        IN  /\ PollUpstoxTask \in BagToSet(pending)
            /\ SetMem(done)
            /\ pending' = Resume(PollUpstoxTask)
            /\ ev' = [op |-> "pollUpstox", from |-> "timer", ok |-> Truthy(data),
                      threw |-> done.threw, cards |-> done.wrote]
            /\ UNCHANGED <<backend, today, dom_vars, isRunning, selectedIndex,
                           timer_vars, listeners>>

PollNsePricesDone ==
    \E data \in fetchNsePrices :
        LET done == pollNsePrices(Mem, selectedIndex, data)
        IN  /\ PollNsePricesTask \in BagToSet(pending)
            /\ SetMem(done)
            /\ pending' = Resume(PollNsePricesTask)
            /\ ev' = [op |-> "pollNsePrices", from |-> "timer", ok |-> Truthy(data),
                      threw |-> done.threw, cards |-> done.wrote]
            /\ UNCHANGED <<backend, today, dom_vars, isRunning, selectedIndex,
                           timer_vars, listeners>>

PollNseChartDone ==
    \E task \in Tasks("pollNseChart") : \E data \in fetchNseChart(task.key) :
        LET done == pollNseChart(Mem, selectedIndex, data)
        IN  /\ SetMem(done)
            /\ pending' = Resume(task)
            /\ ev' = [op |-> "pollNseChart", key |-> task.key, ok |-> Truthy(data),
                      threw |-> done.threw]
            /\ UNCHANGED <<backend, today, dom_vars, isRunning, selectedIndex,
                           timer_vars, listeners>>

----------------------------------------------------------------------------
(* Card click *)

\* the user clicks the card of indexKey, which is on the page: every click
\* listener on it runs up to its await of fetchNseChart(indexKey)
Click(indexKey) ==
    LET selUpstox == UpstoxEntry(Mem, indexKey)
        throws == /\ Truthy(selUpstox)
                  /\ upstoxHistoryIsTodayThrows(Get(selUpstox, "history"))
        hasToday == /\ Truthy(selUpstox)
                    /\ upstoxHistoryIsToday(Get(selUpstox, "history"))
        task == ClickTask(indexKey, selUpstox, hasToday)
    IN  /\ listeners > 0
        /\ indexKey \in cardEls
        /\ Count({"click"}) + listeners <= MaxListeners
        /\ selectedIndex' = indexKey
        /\ pending' = IF throws THEN pending ELSE pending (+) [t \in {task} |-> listeners]
        /\ ev' = [op |-> "click", key |-> indexKey, threw |-> throws]
        /\ UNCHANGED <<backend, today, dom_vars, isRunning, mem_vars, timer_vars,
                       listeners, display_vars>>

\* a click listener that shows the chart response and never the price snapshot
clickResume_ChartOnly(m, task, chartData) ==
    LET indexKey == task.key
        m1 == IF Truthy(chartData) THEN updateChart(m, indexKey, chartData) ELSE m
        best == IF Truthy(chartData)
                THEN [value |-> Get(chartData, "close"),
                      change |-> Get(chartData, "change"),
                      percentChange |-> Get(chartData, "percent"),
                      open |-> Get(chartData, "open"),
                      high |-> Get(chartData, "high"),
                      low |-> Get(chartData, "low")]
                ELSE NullObj
    IN  IF Truthy(best) THEN updateIndexDetail(m1, indexKey, best) ELSE m1

\* the rest of a click listener, after its fetch resolved to chartData
clickResume(m, task, chartData) ==
    LET indexKey == task.key
        m1 == IF Truthy(chartData) THEN updateChart(m, indexKey, chartData) ELSE m
    IN  IF task.hasToday
        THEN LET m2 == updateChart(m1, indexKey, task.selUpstox)
             IN  updateIndexDetail(m2, indexKey,
                                   DetailData(m2, indexKey, task.selUpstox))
        ELSE LET nsePrice == NseEntry(m1, indexKey)
                 best == IF Truthy(nsePrice) THEN nsePrice
                         ELSE IF Truthy(chartData)
                         THEN [value |-> Get(chartData, "close"),
                               change |-> Get(chartData, "change"),
                               percentChange |-> Get(chartData, "percent"),
                               open |-> Get(chartData, "open"),
                               high |-> Get(chartData, "high"),
                               low |-> Get(chartData, "low")]
                         ELSE NullObj
             IN  IF Truthy(best) THEN updateIndexDetail(m1, indexKey, best) ELSE m1

ClickDone ==
    \E task \in Tasks("click") : \E chartData \in fetchNseChart(task.key) :
        /\ SetMem(clickResume(Mem, task, chartData))
        /\ pending' = Resume(task)
        /\ ev' = [op |-> "clickDone", task |-> task, ok |-> Truthy(chartData),
                  threw |-> clickResume(Mem, task, chartData).threw]
        /\ UNCHANGED <<backend, today, dom_vars, isRunning, selectedIndex, timer_vars,
                       listeners>>

----------------------------------------------------------------------------
(* What the backend may answer *)

Yesterday == "2026-11-03"
Today == "2026-11-04"

HistItem(ts, v) == [timestamp |-> ts, value |-> v]

\* an entry of /api/live-indices: { value, change, percentChange, history }
FastEntry(v, d, h) ==
    [value |-> Num(v), change |-> Num(2 * d), percentChange |-> Num(d), history |-> h]

\* the same with the open, high and low of the streamer's session
FastEntryOhl(v, d, h) ==
    [value |-> Num(v), change |-> Num(2 * d), percentChange |-> Num(d), history |-> h,
     open |-> Num(v - 3), high |-> Num(v + 3), low |-> Num(v - 4)]

\* an entry of /api/nse-indices: { value, change, percentChange, open, high, low }
NseEntryOf(v, d) ==
    [value |-> Num(v), change |-> Num(3 * d), percentChange |-> Num(2 * d),
     open |-> Num(v - 1), high |-> Num(v + 1), low |-> Num(v - 2)]

FreshHist == <<HistItem(TsFull(Today, 12, 5, 30), 31)>>
StaleHist == <<HistItem(TsFull(Yesterday, 15, 29, 0), 30)>>

\* /api/nse-chart/<indexKey> from a series, without open, high, low and close
ChartOf(series) == [series |-> series, percent |-> Num(1), change |-> Num(5)]

\* epoch seconds 33300, 43200 are 09:15:00, 12:00:00
SeriesOf(indexKey) ==
    LET p == IF indexKey = "nifty50" THEN 20 ELSE 40
    IN  <<<<33300, p + 1>>, <<43200, p + 2>>>>

\* the fast endpoint answers with every mix of fresh, stale and missing
\* entries, the fast entry of banknifty with session open, high and low; the
\* slow price endpoint lists both indices, or banknifty alone
ArbFast(key, h) == IF key = "nifty50" THEN FastEntry(10, 1, h) ELSE FastEntryOhl(10, 1, h)
ArbFastMaps ==
    UNION {{[key \in S |-> ArbFast(key, c[key])] : c \in [S -> {FreshHist, StaleHist}]} :
             S \in SUBSET Entities \ {{}}}
ArbNse(S) == [key \in S |-> NseEntryOf(12, -1)]
ArbBackends ==
    {[fast |-> f, nse |-> n, chart |-> [key \in Entities |-> ChartOf(SeriesOf(key))]] :
        f \in ArbFastMaps,
        n \in {ArbNse(Entities), ArbNse({"banknifty"})}}

\* Histories of the fast source: up to MaxHist ticks in the order they were
\* recorded, the i-th with value 30 + i.  A history may start with ticks the
\* previous session left behind, and its last item may carry a timestamp
\* that is no "YYYY-MM-DD HH:MM:SS" string, or none.
FnStamps ==
    <<TsFull(Yesterday, 15, 29, 0), TsFull(Today, 9, 15, 0),
      TsFull(Today, 12, 5, 1), TsFull(Today, 12, 5, 30)>>

Recorded(n) ==
    {[i \in 1..n |-> HistItem(FnStamps[c[i]], 30 + i)] :
        c \in {c \in [1..n -> DOMAIN FnStamps] : \A i \in 1..(n - 1) : c[i] <= c[i + 1]}}

OddItems(i) ==
    {HistItem(EmptyStr, 30 + i), HistItem(TsDate(Today), 30 + i), [value |-> 30 + i]}

FnHistories ==
    UNION {Recorded(n) \cup {Append(h, o) : h \in Recorded(n - 1), o \in OddItems(n)} :
             n \in 1..MaxHist}

\* the entries of the fast source: with a history, with an empty one, with none
FnFastEntries ==
    {FastEntry(10, 1, h) : h \in FnHistories \cup {<<>>}}
        \cup {[value |-> Num(10), change |-> Num(2), percentChange |-> Num(1)]}

\* Series of the slow source: up to MaxHist points in time order, the i-th
\* with price 20 + i; epoch seconds 32340, 32410, 32440, 43540 are
\* 08:59:00, 09:00:10, 09:00:40, 12:05:40
FnTimes == <<32340, 32410, 32440, 43540>>

FnSeries ==
    UNION {{[i \in 1..n |-> <<FnTimes[c[i]], 20 + i>>] :
              c \in {c \in [1..n -> DOMAIN FnTimes] : \A i \in 1..(n - 1) : c[i] < c[i + 1]}} :
             n \in 1..MaxHist}

\* one index on the page's feed, the slow price endpoint down
FnBackends ==
    {[fast |-> [key \in {"nifty50"} |-> entry],
      nse |-> NullObj,
      chart |-> [key \in Entities |-> ChartOf(series)]] :
        entry \in FnFastEntries, series \in FnSeries}

\* Success payloads that miss expected keys or carry odd timestamps.  The
\* fast entries of nifty50: as documented; with a history whose last, or
\* whose first, timestamp is a number; without value, change and percent
\* change; without history; with a history whose last timestamp is empty, a
\* date alone, or missing.
OddFastEntries ==
    {FastEntry(10, 1, FreshHist),
     FastEntry(10, 1, <<HistItem(TsNumber, 31)>>),
     FastEntry(10, 1, <<HistItem(TsNumber, 31), HistItem(TsFull(Today, 12, 5, 30), 32)>>),
     [history |-> FreshHist],
     [value |-> Num(10), change |-> Num(2), percentChange |-> Num(1)]}
        \cup {FastEntry(10, 1, <<o>>) : o \in OddItems(1)}

\* the fast payloads: nifty50 alone, or one index with a null entry
OddFast ==
    {[key \in {"nifty50"} |-> entry] : entry \in OddFastEntries}
        \cup {[nifty50 |-> FastEntry(10, 1, FreshHist), banknifty |-> NullObj],
              [nifty50 |-> NullObj, banknifty |-> FastEntryOhl(10, 1, FreshHist)]}

\* the slow price payloads: as documented, with a null entry, and with an
\* entry that has no change
OddNse ==
    {ArbNse(Entities),
     [nifty50 |-> NullObj, banknifty |-> NseEntryOf(12, -1)],
     [nifty50 |-> [value |-> Num(12), percentChange |-> Num(-2), open |-> Num(11),
                   high |-> Num(13), low |-> Num(10)]]}

\* one source at a time is odd
OddBackends ==
    {[fast |-> f, nse |-> n, chart |-> [key \in Entities |-> ChartOf(SeriesOf(key))]] :
        <<f, n>> \in (OddFast \X {ArbNse(Entities)})
                        \cup ({[nifty50 |-> FastEntry(10, 1, FreshHist)]} \X OddNse)}

\* Payloads that differ in their keys and in every value, for backends
\* whose answers change from one fetch to the next
RaceFast ==
    {[nifty50 |-> FastEntry(10, 1, FreshHist)],
     [banknifty |-> FastEntryOhl(20, 2, FreshHist)],
     [nifty50 |-> FastEntry(30, 3, FreshHist), banknifty |-> FastEntryOhl(40, 4, StaleHist)]}
RaceNse ==
    {[nifty50 |-> NseEntryOf(12, -1), banknifty |-> NseEntryOf(22, -2)],
     [banknifty |-> NseEntryOf(32, -3)]}
RaceBackends ==
    {[fast |-> f, nse |-> n, chart |-> [key \in Entities |-> ChartOf(SeriesOf(key))]] :
        f \in RaceFast, n \in RaceNse}

\* Series of the slow source in any order: up to MaxHist points, the i-th
\* with price 20 + (7 i mod 10); epoch seconds 32399, 32400, 55859, 55860
\* and 120600 are 08:59:59, 09:00:00, 15:30:59, 15:31:00 and 09:30:00 of the
\* next day.  A response may carry open, high, low and close of the day.
SlowTimes == <<32399, 32400, 55859, 55860, 120600>>

SlowSeries ==
    UNION {{[i \in 1..n |-> <<SlowTimes[c[i]], 20 + ((7 * i) % 10)>>] :
              c \in {c \in [1..n -> DOMAIN SlowTimes] :
                        \A i, j \in 1..n : i # j => c[i] # c[j]}} :
             n \in 0..MaxHist}

DayFields == [open |-> Num(90), high |-> Num(99), low |-> Num(80), close |-> Num(95)]

ChartWith(series, given) == Spread(ChartOf(series), [f \in given |-> DayFields[f]])

\* the fast endpoint is down, or answers with a fresh history of one tick,
\* or with one whose only timestamp is a date without a time
SlowBackends ==
    {[fast |-> f, nse |-> NullObj,
      chart |-> [key \in Entities |-> ChartWith(series, given)]] :
        f \in {NullObj,
               [nifty50 |-> FastEntry(10, 1, FreshHist)],
               [nifty50 |-> FastEntry(10, 1, <<HistItem(TsDate(Today), 31)>>)]},
        series \in SlowSeries,
        given \in {{}, {"open", "low"}, {"high", "close"}, {"open", "high", "low", "close"}}}

\* the slow endpoints are down, the fast endpoint answers
LifeBackends ==
    {[fast |-> [key \in Entities |-> FastEntry(10, 1, FreshHist)],
      nse |-> NullObj,
      chart |-> [key \in Entities |-> NullObj]]}

----------------------------------------------------------------------------
(* What the page holds *)

\* the home page: the chart, every card and the whole detail panel
HomePage == [chart |-> TRUE, cards |-> Entities, detail |-> DetailIds]

\* pages that lack the chart, a card, or elements of the detail panel, and a
\* page with none of them
Pages ==
    {HomePage,
     [chart |-> FALSE, cards |-> Entities, detail |-> DetailIds],
     [chart |-> TRUE, cards |-> {"nifty50"}, detail |-> DetailIds],
     [chart |-> TRUE, cards |-> Entities, detail |-> {"name", "value"}],
     [chart |-> FALSE, cards |-> {"banknifty"}, detail |-> {"change", "open"}],
     [chart |-> FALSE, cards |-> {}, detail |-> {}]}

FullPage == [chart |-> chartWidget, cards |-> cardEls, detail |-> detailEls] = HomePage

----------------------------------------------------------------------------
(* The machine *)

Init ==
    /\ backend \in ArbBackends \cup LifeBackends \cup FnBackends \cup OddBackends
                    \cup RaceBackends \cup SlowBackends
    /\ today \in {Yesterday, Today}
    /\ \E page \in Pages :
          /\ chartWidget = page.chart
          /\ cardEls = page.cards
          /\ detailEls = page.detail
    /\ Init0

Next ==
    \/ Start
    \/ StartChartDone
    \/ StartPricesDone
    \/ StartUpstoxDone
    \/ Stop
    \/ TimerFires
    \/ PollUpstoxDone
    \/ PollNsePricesDone
    \/ PollNseChartDone
    \/ \E indexKey \in Entities : Click(indexKey)
    \/ ClickDone

Spec == Init /\ [][Next]_vars

\* the user does not click a card while a click is still loading its chart
OneClick == Count({"click"}) = 0

\* Lifecycle: start() and stop() at any time, the slow endpoints down
InitLife == Init /\ backend \in LifeBackends /\ today = Today /\ FullPage

NextLife ==
    \/ Start
    \/ StartChartDone
    \/ StartPricesDone
    \/ StartUpstoxDone
    \/ Stop
    \/ TimerFires
    \/ PollUpstoxDone
    \/ PollNsePricesDone
    \/ PollNseChartDone
    \/ \E indexKey \in Entities : OneClick /\ Click(indexKey)
    \/ ClickDone

SpecLife == InitLife /\ [][NextLife]_vars

\* Page wiring: the boot handler awaits the first start() before it adds the
\* visibilitychange listener, which calls stop() when the page is hidden and
\* start() when it is visible again.  The first start() has returned once
\* another one has run or none of its loads is pending.
Booted == listeners > 0 /\ ~(listeners = 1 /\ isRunning /\ Count(StartOps) > 0)

InitPage == Init /\ backend \in LifeBackends /\ today = Today /\ FullPage

NextPage ==
    \/ (listeners = 0 \/ Booted) /\ Start
    \/ StartChartDone
    \/ StartPricesDone
    \/ StartUpstoxDone
    \/ Booted /\ Stop
    \/ TimerFires
    \/ PollUpstoxDone
    \/ PollNsePricesDone
    \/ PollNseChartDone
    \/ \E indexKey \in Entities : OneClick /\ Click(indexKey)
    \/ ClickDone

SpecPage == InitPage /\ [][NextPage]_vars

\* Arbitration: the page stays visible, so nothing calls stop()
InitArb == Init /\ backend \in ArbBackends /\ today = Today /\ FullPage

NextArb ==
    \/ Start
    \/ StartChartDone
    \/ StartPricesDone
    \/ StartUpstoxDone
    \/ TimerFires
    \/ PollUpstoxDone
    \/ PollNsePricesDone
    \/ PollNseChartDone
    \/ \E indexKey \in Entities : OneClick /\ Click(indexKey)
    \/ ClickDone

SpecArb == InitArb /\ [][NextArb]_vars

\* Odd payloads: the page stays visible
InitOdd == Init /\ backend \in OddBackends /\ today = Today /\ FullPage

NextOdd ==
    \/ Start
    \/ StartChartDone
    \/ StartPricesDone
    \/ StartUpstoxDone
    \/ TimerFires
    \/ PollUpstoxDone
    \/ PollNsePricesDone
    \/ PollNseChartDone
    \/ \E indexKey \in Entities : OneClick /\ Click(indexKey)
    \/ ClickDone

SpecOdd == InitOdd /\ [][NextOdd]_vars

\* Changing answers: between two fetches the backend may come to answer
\* with any other payload, an older one included
BackendChanges ==
    /\ backend' \in RaceBackends \ {backend}
    /\ ev' = [op |-> "backend"]
    /\ UNCHANGED <<today, dom_vars, isRunning, selectedIndex, mem_vars, timer_vars,
                   listeners, pending, display_vars>>

InitRace == Init /\ backend \in RaceBackends /\ today = Today /\ FullPage

NextRace ==
    \/ Start
    \/ StartChartDone
    \/ StartPricesDone
    \/ StartUpstoxDone
    \/ TimerRefires
    \/ PollUpstoxDone
    \/ PollNsePricesDone
    \/ PollNseChartDone
    \/ BackendChanges

SpecRace == InitRace /\ [][NextRace]_vars

\* Clicks in a row, before the first interval has passed: the user clicks a
\* card while the listener of an earlier click still awaits its chart fetch;
\* every source lists both indices
ClickBackends == {b \in ArbBackends : DOMAIN b.fast = Entities /\ DOMAIN b.nse = Entities}

InitClicks == Init /\ backend \in ClickBackends /\ today = Today /\ FullPage

NextClicks ==
    \/ Start
    \/ StartChartDone
    \/ StartPricesDone
    \/ StartUpstoxDone
    \/ \E indexKey \in Entities : Click(indexKey)
    \/ ClickDone

SpecClicks == InitClicks /\ [][NextClicks]_vars

\* Slow chart data: nobody clicks and the page stays visible
InitSlow == Init /\ backend \in SlowBackends /\ today = Today /\ FullPage

NextSlow ==
    \/ Start
    \/ StartChartDone
    \/ StartPricesDone
    \/ StartUpstoxDone
    \/ TimerFires
    \/ PollUpstoxDone
    \/ PollNsePricesDone
    \/ PollNseChartDone

SpecSlow == InitSlow /\ [][NextSlow]_vars

\* Pages that lack elements: nobody clicks and the page stays visible
InitDom == Init /\ backend \in ClickBackends /\ today = Today

NextDom ==
    \/ Start
    \/ StartChartDone
    \/ StartPricesDone
    \/ StartUpstoxDone
    \/ TimerFires
    \/ PollUpstoxDone
    \/ PollNsePricesDone
    \/ PollNseChartDone

SpecDom == InitDom /\ [][NextDom]_vars

\* Chart data: nobody clicks and the page stays visible
InitFn == Init /\ backend \in FnBackends /\ FullPage

NextFn ==
    \/ Start
    \/ StartChartDone
    \/ StartPricesDone
    \/ StartUpstoxDone
    \/ TimerFires
    \/ PollUpstoxDone
    \/ PollNsePricesDone
    \/ PollNseChartDone

SpecFn == InitFn /\ [][NextFn]_vars

\* Running for ever: the page boots, stays visible and nobody clicks; every
\* source lists both indices.  setInterval keeps firing each timer, so each
\* kind of callback that can run again and again does run again (it waits
\* while another poll of the model is in flight); a call that awaits a fetch
\* resumes in the end, the fetch helpers resolving on every outcome.
InitStarve == Init /\ backend \in ClickBackends /\ today = Today /\ FullPage

TimerFiresOf(kind) == TimerFires /\ ev'.kind = kind

NextStarve ==
    \/ listeners = 0 /\ Start
    \/ StartChartDone
    \/ StartPricesDone
    \/ StartUpstoxDone
    \/ TimerFires
    \/ PollUpstoxDone
    \/ PollNsePricesDone
    \/ PollNseChartDone

FairStarve ==
    /\ WF_vars(listeners = 0 /\ Start)
    /\ WF_vars(StartChartDone)
    /\ WF_vars(StartPricesDone)
    /\ WF_vars(StartUpstoxDone)
    /\ SF_vars(TimerFiresOf("upstox"))
    /\ SF_vars(TimerFiresOf("nsePrice"))
    /\ SF_vars(TimerFiresOf("nseChart"))
    /\ WF_vars(PollUpstoxDone)
    /\ WF_vars(PollNsePricesDone)
    /\ WF_vars(PollNseChartDone)

SpecStarve == InitStarve /\ [][NextStarve]_vars /\ FairStarve

----------------------------------------------------------------------------
(* Properties *)

\* the YYYY-MM-DD a history's last tick carries, "" if it carries none
LastDate(history) ==
    LET ts == Get(history[Len(history)], "timestamp")
    IN  IF ts # Undefined /\ ts.kind \in {"full", "date"} THEN ts.date ELSE ""

\* an entry of the fast source whose history ends today
FreshEntry(entry) ==
    /\ Truthy(entry)
    /\ Get(entry, "history") # Undefined
    /\ Len(entry.history) > 0
    /\ LastDate(entry.history) = today

\* an entry of the fast source whose history ends on another day
StaleEntry(entry) ==
    /\ Truthy(entry)
    /\ Get(entry, "history") # Undefined
    /\ Len(entry.history) > 0
    /\ LastDate(entry.history) # today

nonEv ==
    <<backend, today, dom_vars, isRunning, selectedIndex, mem_vars, timer_vars,
      listeners, pending, display_vars>>

\* the detail panel showing these numbers for indexKey
Shows(indexKey, value, change, pct, open, high, low) ==
    detail = [key |-> indexKey, value |-> value, change |-> change, pct |-> pct,
              open |-> open, high |-> high, low |-> low]

C2_StaleCardUntouched ==
    [][(ev'.op = "pollUpstox" /\ ev'.ok) =>
           \A E \in Entities :
               StaleEntry(Get(latestUpstoxData', E)) => cards'[E] = cards[E]
      ]_vars

\* C3: after a fast poll that succeeded, the card of every index whose fast
\* history ends today shows that index's fast value, whichever index is
\* selected and whether or not the selected index has a fresh entry.
C3_FreshCardWritten ==
    (ev.op = "pollUpstox" /\ ev.ok) =>
        \A E \in Entities :
            FreshEntry(Get(latestUpstoxData, E)) =>
                /\ cards[E] # NullObj
                /\ cards[E].value = latestUpstoxData[E].value[1]

\* C4: the fast source is used exactly when the history is not empty and the
\* date of its last tick is today: a successful fast poll writes the detail
\* panel (which nothing else writes while the slow price source is down and
\* nobody clicks) iff the entry of the selected index is such a history.
C4_FreshIffLastTickToday ==
    (ev.op = "pollUpstox" /\ ev.ok /\ ~Truthy(latestNseData)) =>
        (detail # NullObj <=> FreshEntry(Get(latestUpstoxData, selectedIndex)))

\* C4 witness: a history that starts with a tick of today and ends with a
\* tick of another day, or of no day, was classified and not displayed
C4_Witness ==
    /\ ev.op = "pollUpstox" /\ ev.ok /\ ~Truthy(latestNseData)
    /\ LET entry == Get(latestUpstoxData, selectedIndex)
       IN  /\ Truthy(entry)
           /\ Get(entry, "history") # Undefined
           /\ Len(entry.history) > 1
           /\ Get(entry.history[1], "timestamp") # Undefined
           /\ StartsWith(entry.history[1].timestamp, today)
           /\ LastDate(entry.history) # today
    /\ detail = NullObj

C7_LabelsNonDecreasing ==
    \A i \in 1..(Len(chart.labels) - 1) :
        ~LabelLess(chart.labels[i + 1], chart.labels[i])

\* the base points cached for the selected index that lie before label
BaseBefore(label) ==
    LET base == Get(nseBaseChart, selectedIndex)
    IN  IF ~Truthy(base) THEN <<>>
        ELSE LET idx == SelectSeq([i \in 1..Len(base.labels) |-> i],
                                  LAMBDA i : LabelLess(base.labels[i], label))
             IN  [i \in 1..Len(idx) |-> <<base.labels[idx[i]], base.values[idx[i]]>>]

\* the points of the rendered chart
ChartPoints == [i \in 1..Len(chart.labels) |-> <<chart.labels[i], chart.values[i]>>]

\* the minute buckets of a history, as the fast poll has rendered them
FastPoints(history) ==
    [i \in 1..Len(UpstoxLabels(history)) |->
        <<UpstoxLabels(history)[i], UpstoxValues(history)[i]>>]

\* C8: after a fast poll has rendered a fresh history with at least one
\* minute bucket, the chart is the cached base points before the first fast
\* label, in cache order, followed by the fast points (the fast points alone
\* without a cache), and its labels strictly increase.
C8_SpliceContinuity ==
    (ev.op = "pollUpstox" /\ ev.ok) =>
        LET fast == Get(latestUpstoxData, selectedIndex)
        IN  (FreshEntry(fast) /\ Len(FastPoints(fast.history)) > 0) =>
                /\ ChartPoints =
                       BaseBefore(FastPoints(fast.history)[1][1]) \o FastPoints(fast.history)
                /\ \A i \in 1..(Len(chart.labels) - 1) :
                       LabelLess(chart.labels[i], chart.labels[i + 1])

\* C9: after a fast poll has rendered a fresh history, the chart ends with
\* exactly one point per minute label of the history, and the value of each
\* is the value of the last tick of the history with that label.
C9_MinuteDedup ==
    (ev.op = "pollUpstox" /\ ev.ok) =>
        LET fast == Get(latestUpstoxData, selectedIndex)
        IN  FreshEntry(fast) =>
                LET h == fast.history
                    LabelOf(i) == IF StrTruthy(Get(h[i], "timestamp"))
                                  THEN TsLabel(h[i].timestamp) ELSE NoLabel
                    ticks == {i \in DOMAIN h : LabelOf(i) # NoLabel}
                    minutes == {LabelOf(i) : i \in ticks}
                    n == Cardinality(minutes)
                    len == Len(chart.labels)
                    LastTick(label) ==
                        CHOOSE i \in ticks :
                            /\ LabelOf(i) = label
                            /\ \A j \in ticks : LabelOf(j) = label => j <= i
                IN  n > 0 =>
                        /\ len >= n
                        /\ {chart.labels[j] : j \in (len - n + 1)..len} = minutes
                        /\ \A j \in (len - n + 1)..len :
                               chart.values[j] = h[LastTick(chart.labels[j])].value

\* C9 witness: the rendered history has two ticks in one minute with
\* different values, and the chart ends with the value of the later one
C9_Witness ==
    /\ ev.op = "pollUpstox" /\ ev.ok
    /\ FreshEntry(Get(latestUpstoxData, selectedIndex))
    /\ LET h == latestUpstoxData[selectedIndex].history
       IN  /\ Len(h) > 2
           /\ h[Len(h) - 1].timestamp.kind = "full"
           /\ h[Len(h)].timestamp.kind = "full"
           /\ TsLabel(h[Len(h) - 1].timestamp) = TsLabel(h[Len(h)].timestamp)
           /\ h[Len(h) - 1].value # h[Len(h)].value
           /\ Len(chart.values) > 1
           /\ chart.values[Len(chart.values)] = h[Len(h)].value

\* C10: start() while running and stop() while stopped change nothing; no
\* call of start() creates a timer by itself; and as long as start() has
\* gone past its guard once only, however often it has been called, there
\* is at most one set of three timers, one of each kind.
C10_StartStopIdempotent ==
    [][/\ (ev'.op = "start" /\ isRunning) => UNCHANGED nonEv
       /\ (ev'.op = "stop" /\ ~isRunning) => UNCHANGED nonEv
       /\ (ev'.op = "start") => UNCHANGED timer_vars
       /\ (listeners' <= 1) =>
              /\ Cardinality(timers') \in {0, 3}
              /\ \A t, u \in timers' : t.kind = u.kind => t = u
      ]_vars

\* C10 witness: start() was called again after a first start() had created
\* its timers, and there are three timers
C10_Witness ==
    /\ ev = [op |-> "start", ran |-> FALSE]
    /\ isRunning
    /\ listeners = 1
    /\ Cardinality(timers) = 3
    /\ {t.kind : t \in timers} = {"upstox", "nsePrice", "nseChart"}

\* C11: whenever the updater is stopped no interval timer is active.
C11_StoppedHasNoTimers == ~isRunning => timers = {}

\* the number a field of an object holds, 0 if the object has no such field
FieldOr0(obj, f) == IF f \in DOMAIN obj THEN obj[f][1] ELSE 0

\* C12: a click on the card of an index for which the fast source had given
\* nothing makes that index the selected one, and when its listener has got
\* the chart response the chart shows the series of that response and the
\* detail panel shows the cached slow price entry of the index, or the
\* figures of the chart response when no price entry is cached.
C12_ClickWithoutFastData ==
    /\ (ev.op = "click" /\ Count({"click"}) > 0) => selectedIndex = ev.key
    /\ (ev.op = "clickDone" /\ ev.ok /\ ~Truthy(ev.task.selUpstox)) =>
           LET E == ev.task.key
               response == backend.chart[E]
               slow == Get(latestNseData, E)
           IN  /\ selectedIndex = E
               /\ chart.labels = NseLabels(response.series)
               /\ chart.values = NseValues(response.series)
               /\ IF Truthy(slow)
                  THEN Shows(E, slow.value[1], slow.change[1], slow.percentChange[1],
                             slow.open[1], slow.high[1], slow.low[1])
                  ELSE Shows(E, FieldOr0(response, "close"), FieldOr0(response, "change"),
                             FieldOr0(response, "percent"), FieldOr0(response, "open"),
                             FieldOr0(response, "high"), FieldOr0(response, "low"))

\* C12 witness: banknifty was clicked while the fast snapshot had no entry
\* for it, though it has a fresh one for nifty50, and the listener has shown
\* the slow price entry and the slow series of banknifty
C12_Witness ==
    /\ ev.op = "clickDone" /\ ev.ok
    /\ ev.task.key = "banknifty"
    /\ ~Truthy(ev.task.selUpstox)
    /\ FreshEntry(Get(latestUpstoxData, "nifty50"))
    /\ Truthy(Get(latestNseData, "banknifty"))
    /\ detail.key = "banknifty"
    /\ detail.value = latestNseData["banknifty"].value[1]
    /\ chart.values = NseValues(backend.chart["banknifty"].series)

\* C13: a poll whose fetch failed changes neither the snapshots, the chart
\* caches, the selection nor anything displayed, be it a poll of a timer or
\* one of the first loads of start(); a timer's poll also leaves the three
\* timers as they are.
C13_FailedFetchNoUpdate ==
    [][(ev'.op \in {"pollUpstox", "pollNsePrices", "pollNseChart", "startChart"}
            /\ ~ev'.ok) =>
           /\ UNCHANGED <<mem_vars, selectedIndex, display_vars>>
           /\ (ev'.op = "pollNseChart" \/
                 (ev'.op \in {"pollUpstox", "pollNsePrices"} /\ ev'.from = "timer")) =>
                  UNCHANGED timer_vars
      ]_vars

\* C13 witness: the fetch of a timer's fast poll has failed while a fast
\* snapshot is stored, the display is filled and the three timers are active
C13_Witness ==
    /\ ev.op = "pollUpstox" /\ ev.from = "timer" /\ ~ev.ok
    /\ Truthy(latestUpstoxData)
    /\ Truthy(latestNseData)
    /\ detail # NullObj
    /\ Len(chart.labels) > 0
    /\ Cardinality(timers) = 3

\* the index whose chart the handler that ran last had fetched
FetchedKey(e) == IF e.op = "clickDone" THEN e.task.key ELSE e.key

\* C16: the cached base chart and day OHLC of an index change only when a
\* chart response fetched for that index with a series that has points of the
\* session is processed, and then both are written, from that response.
C16_CacheLifecycle ==
    [][\A E \in Entities :
           (Get(nseBaseChart', E) # Get(nseBaseChart, E)
                \/ Get(nseChartOhlc', E) # Get(nseChartOhlc, E)) =>
               /\ ev'.op \in {"startChart", "pollNseChart", "clickDone"}
               /\ ev'.ok
               /\ FetchedKey(ev') = E
               /\ Len(NseLabels(backend.chart[E].series)) > 0
               /\ nseBaseChart'[E] = [labels |-> NseLabels(backend.chart[E].series),
                                      values |-> NseValues(backend.chart[E].series)]
               /\ Truthy(Get(nseChartOhlc', E))
      ]_vars

\* C18: after a fast poll that found the selected index fresh, the card of
\* every index with a fresh fast entry shows the value and the percent
\* change of that fast entry.
C18_FreshCardShowsFastFields ==
    (ev.op = "pollUpstox" /\ ev.ok /\ FreshEntry(Get(latestUpstoxData, selectedIndex))) =>
        \A E \in Entities :
            FreshEntry(Get(latestUpstoxData, E)) =>
                cards[E] = [value |-> latestUpstoxData[E].value[1],
                            pct |-> latestUpstoxData[E].percentChange[1]]

\* C20: a successful slow price poll leaves the card of every index whose
\* cached fast entry is fresh as it was and writes the card of every other
\* index of its payload from the payload; it leaves the detail panel as it
\* was when the cached fast entry of the selected index is fresh, and
\* otherwise writes it from the payload's entry of the selected index.
C20_SlowPricePollArbitration ==
    [][(ev'.op = "pollNsePrices" /\ ev'.ok) =>
           /\ \A E \in Entities :
                  IF E \in DOMAIN backend.nse /\ ~FreshEntry(Get(latestUpstoxData, E))
                  THEN cards'[E] = [value |-> backend.nse[E].value[1],
                                    pct |-> backend.nse[E].percentChange[1]]
                  ELSE cards'[E] = cards[E]
           /\ IF selectedIndex \in DOMAIN backend.nse
                  /\ ~FreshEntry(Get(latestUpstoxData, selectedIndex))
              THEN LET slow == backend.nse[selectedIndex]
                   IN  detail' = [key |-> selectedIndex, value |-> slow.value[1],
                                  change |-> slow.change[1],
                                  pct |-> slow.percentChange[1], open |-> slow.open[1],
                                  high |-> slow.high[1], low |-> slow.low[1]]
              ELSE detail' = detail
      ]_vars

\* C20 witness: a slow price poll has completed with a fresh cached fast
\* entry for the selected nifty50, whose card and detail keep the fast value,
\* and a stale one for banknifty, whose card shows the slow value
C20_Witness ==
    /\ ev.op = "pollNsePrices" /\ ev.ok
    /\ selectedIndex = "nifty50"
    /\ FreshEntry(Get(latestUpstoxData, "nifty50"))
    /\ StaleEntry(Get(latestUpstoxData, "banknifty"))
    /\ DOMAIN latestNseData = Entities
    /\ cards["nifty50"] # NullObj
    /\ cards["nifty50"].value = latestUpstoxData["nifty50"].value[1]
    /\ detail # NullObj
    /\ detail.value = latestUpstoxData["nifty50"].value[1]
    /\ cards["banknifty"] # NullObj
    /\ cards["banknifty"].value = latestNseData["banknifty"].value[1]

\* C14: no handler raises, whatever the backend answers.
C14_NeverThrows == "threw" \in DOMAIN ev => ~ev.threw

\* an entry of the fast source whose history ends with a timestamp that is
\* no "YYYY-MM-DD HH:MM:SS" string
MalformedLast(entry) ==
    /\ Truthy(entry)
    /\ Get(entry, "history") # Undefined
    /\ Len(entry.history) > 0
    /\ LET ts == Get(entry.history[Len(entry.history)], "timestamp")
       IN  ts = Undefined \/ ts.kind # "full"

\* C17: a fast poll that finds the history of the selected index ending with
\* a missing, empty or malformed timestamp does not raise and, taking the
\* history as not fresh, writes no card, no detail field and no chart point.
C17_MalformedTimestampNotFresh ==
    [][(ev'.op = "pollUpstox" /\ ev'.ok
            /\ MalformedLast(Get(latestUpstoxData', selectedIndex))) =>
           /\ ~ev'.threw
           /\ UNCHANGED display_vars
      ]_vars

\* C19: in the detail panel a fast poll writes for a fresh fast entry while
\* a slow price entry is cached, change and percent change are those of the
\* slow entry where it has them and those of the fast entry where it has not.
C19_PerFieldFallback ==
    (ev.op = "pollUpstox" /\ ev.ok /\ ~ev.threw) =>
        LET fast == Get(latestUpstoxData, selectedIndex)
            slow == Get(latestNseData, selectedIndex)
        IN  (FreshEntry(fast) /\ Truthy(slow)) =>
                /\ detail # NullObj
                /\ detail.change = IF "change" \in DOMAIN slow THEN slow.change[1]
                                   ELSE FieldOr0(fast, "change")
                /\ detail.pct = IF "percentChange" \in DOMAIN slow
                                THEN slow.percentChange[1]
                                ELSE FieldOr0(fast, "percentChange")

\* C15: a successful poll leaves as the source's snapshot exactly the payload
\* it fetched, with no entry of an earlier payload, whatever was stored and
\* however many fetches of the source were in flight; the cards it writes
\* show that payload's values.
C15_SnapshotLastWriteWins ==
    /\ (ev.op = "pollUpstox" /\ ev.ok) =>
          /\ latestUpstoxData = backend.fast
          /\ FreshEntry(Get(backend.fast, selectedIndex)) =>
                \A key \in DOMAIN backend.fast :
                    /\ cards[key] # NullObj
                    /\ cards[key].value = FieldOr0(backend.fast[key], "value")
    /\ (ev.op = "pollNsePrices" /\ ev.ok) =>
          /\ latestNseData = backend.nse
          /\ \A key \in DOMAIN backend.nse :
                ~FreshEntry(Get(latestUpstoxData, key)) =>
                    cards[key] = CardText(backend.nse[key])

\* a fast poll completed while another fetch of the fast source was in
\* flight, and its payload, which has no nifty50, replaced a snapshot whose
\* nifty50 is still on the card
C15_Witness ==
    /\ ev.op = "pollUpstox" /\ ev.ok
    /\ Count({"pollUpstox"}) > 0
    /\ latestUpstoxData = backend.fast
    /\ "nifty50" \notin DOMAIN latestUpstoxData
    /\ cards["nifty50"] # NullObj
    /\ cards["nifty50"].value \in {10, 30}

\* C21: while the click that selected an index awaits its chart fetch, a fast
\* poll renders the fast series of that index only onto a cached base chart
\* of the index.
C21_BaseBeforeSplice ==
    [][(/\ ev'.op = "pollUpstox" /\ ev'.from = "timer" /\ ev'.ok /\ ~ev'.threw
        /\ FreshEntry(Get(latestUpstoxData', selectedIndex))
        /\ \E task \in Tasks("click") : task.key = selectedIndex) =>
           /\ Truthy(Get(nseBaseChart, selectedIndex))
           /\ Truthy(Get(nseChartOhlc, selectedIndex))
      ]_vars

\* C22: the cached base chart and day OHLC of an index hold what the chart
\* endpoint answers for that index, never the answer for another index.
C22_CacheKeyedByFetchedEntity ==
    \A E \in Entities :
        /\ Truthy(Get(nseBaseChart, E)) =>
              nseBaseChart[E] = [labels |-> NseLabels(backend.chart[E].series),
                                 values |-> NseValues(backend.chart[E].series)]
        /\ Truthy(Get(nseChartOhlc, E)) =>
              nseChartOhlc[E].open = Num(NseValues(backend.chart[E].series)[1])

\* C25: every write of the detail panel for the selected index, made while
\* the fast snapshot holds a fresh history for it, writes the value of that
\* fast snapshot.
C25_FreshFastWinsDetailValue ==
    [][(/\ detail' # detail
        /\ detail'.key = selectedIndex'
        /\ FreshEntry(Get(latestUpstoxData', selectedIndex'))) =>
           detail'.value = FieldOr0(latestUpstoxData'[selectedIndex'], "value")
      ]_vars

\* C26: after a fast poll that rendered the chart for a fresh fast entry, the
\* chart is in the up colour exactly when the change the detail panel shows
\* is not negative.
C26_TrendColourFollowsChange ==
    (/\ ev.op = "pollUpstox" /\ ev.ok /\ ~ev.threw
     /\ FreshEntry(Get(latestUpstoxData, selectedIndex))) =>
        (chart.positive <=> detail.change >= 0)

\* C23: every write of the detail panel names the index that is selected
\* when it is made, and a click listener that writes the chart or the detail
\* panel writes them for the index that is selected then.
C23_DisplayFollowsSelection ==
    [][/\ detail' # detail => detail'.key = selectedIndex'
       /\ (ev'.op = "clickDone" /\ (chart' # chart \/ detail' # detail)) =>
              ev'.task.key = selectedIndex'
      ]_vars

\* C24: at most one interval timer of each poll loop is active, and the
\* handles _upstoxTimer, _nsePriceTimer and _nseChartTimer hold the ids of
\* all active timers.
C24_NoLeakedTimers ==
    /\ \A kind \in {"upstox", "nsePrice", "nseChart"} :
          Cardinality({t \in timers : t.kind = kind}) <= 1
    /\ \A t \in timers : t.id \in {upstoxTimer, nsePriceTimer, nseChartTimer}

\* time of day of an epoch, in seconds, taken as it stands
SecOfDay(ts) == ts % 86400

\* 09:00:00 to 15:30:59
InWindow(ts) == SecOfDay(ts) >= 9 * 3600 /\ SecOfDay(ts) < 15 * 3600 + 31 * 60

\* the points of a series in the window, in the order of the series
Kept(series) == SelectSeq(series, LAMBDA p : InWindow(p[1]))

KeptLabels(series) ==
    [i \in 1..Len(Kept(series)) |->
        <<SecOfDay(Kept(series)[i][1]) \div 3600,
          (SecOfDay(Kept(series)[i][1]) % 3600) \div 60>>]

KeptValues(series) == [i \in 1..Len(Kept(series)) |-> Kept(series)[i][2]]

\* the handler that ran last processed a chart response
SlowDone(e) == e.op \in {"startChart", "pollNseChart"} /\ e.ok /\ ~e.threw

\* an entry of the fast source none of whose timestamps has a time of day
NoFastPoint(entry) ==
    \A i \in DOMAIN entry.history :
        LET ts == Get(entry.history[i], "timestamp")
        IN  ts = Undefined \/ ts.kind # "full"

\* C27: when a chart response with points in 09:00 to 15:30 has been
\* processed, the cached base chart holds exactly those points, in the order
\* of the response, labelled hour and minute of their UTC clock, and the
\* chart shows them unless a fresh fast history was spliced on; no cached
\* label is ever outside 09:00 to 15:30.
C27_SessionWindowFilter ==
    /\ SlowDone(ev) =>
          LET series == backend.chart[ev.key].series
              fast == Get(latestUpstoxData, selectedIndex)
          IN  Len(Kept(series)) > 0 =>
                 /\ Get(nseBaseChart, selectedIndex) =
                        [labels |-> KeptLabels(series), values |-> KeptValues(series)]
                 /\ (ev.op = "startChart" \/ ~FreshEntry(fast) \/ NoFastPoint(fast)) =>
                        /\ chart.labels = KeptLabels(series)
                        /\ chart.values = KeptValues(series)
    /\ \A E \in DOMAIN nseBaseChart :
          \A i \in DOMAIN nseBaseChart[E].labels :
              LET label == nseBaseChart[E].labels[i]
              IN  /\ label[1] * 60 + label[2] >= 9 * 60
                  /\ label[1] * 60 + label[2] <= 15 * 60 + 30

\* a response out of time order with a point at 15:30:59 that is kept and a
\* point that is dropped
C27_Witness ==
    /\ SlowDone(ev)
    /\ LET series == backend.chart[ev.key].series
       IN  /\ Len(Kept(series)) = 2
           /\ Len(series) = 3
           /\ series[1][1] = 55859
           /\ nseBaseChart[selectedIndex].labels[1] = <<15, 30>>
           /\ chart.labels = nseBaseChart[selectedIndex].labels

\* C28: when a chart response with points in the window has been processed,
\* the cached day OHLC holds, field by field, the open, high, low and close
\* the response gives, and for a field it does not give the first, the
\* greatest, the least and the last of the kept values.
C28_DayOhlcDerivation ==
    SlowDone(ev) =>
        LET data == backend.chart[ev.key]
            values == KeptValues(data.series)
            greatest == CHOOSE v \in {values[i] : i \in DOMAIN values} :
                            \A i \in DOMAIN values : values[i] <= v
            least == CHOOSE v \in {values[i] : i \in DOMAIN values} :
                            \A i \in DOMAIN values : values[i] >= v
            Field(f, derived) == IF f \in DOMAIN data THEN data[f] ELSE Num(derived)
        IN  Len(values) > 0 =>
                Get(nseChartOhlc, selectedIndex) =
                    [open |-> Field("open", values[1]),
                     high |-> Field("high", greatest),
                     low |-> Field("low", least),
                     close |-> Field("close", values[Len(values)])]

\* the response gave high and close alone, and the least of three kept
\* values is neither the first nor the last
C28_Witness ==
    /\ SlowDone(ev)
    /\ DOMAIN backend.chart[ev.key] \cap {"open", "high", "low", "close"} = {"high", "close"}
    /\ Len(KeptValues(backend.chart[ev.key].series)) = 3
    /\ nseChartOhlc[selectedIndex].high = Num(99)
    /\ nseChartOhlc[selectedIndex].open = Num(27)
    /\ nseChartOhlc[selectedIndex].low = Num(21)

\* C29: a chart response without a point in the window, and a fast poll with
\* a fresh history none of whose timestamps has a time of day, leave the
\* chart, the cached base charts and the cached day OHLC as they were.
C29_EmptyDataNoRender ==
    [][/\ (/\ SlowDone(ev')
           /\ Len(Kept(backend.chart[ev'.key].series)) = 0
           /\ \/ ev'.op = "startChart"
              \/ ~FreshEntry(Get(latestUpstoxData, selectedIndex))
              \/ NoFastPoint(latestUpstoxData[selectedIndex])) =>
              UNCHANGED <<chart, nseBaseChart, nseChartOhlc>>
       /\ (/\ ev'.op = "pollUpstox" /\ ev'.ok
           /\ FreshEntry(Get(latestUpstoxData', selectedIndex))
           /\ NoFastPoint(latestUpstoxData'[selectedIndex])) =>
              UNCHANGED <<chart, nseBaseChart, nseChartOhlc>>
      ]_vars

\* a fast poll found a fresh history without a time of day while the chart
\* showed the slow series
C29_Witness ==
    /\ ev.op = "pollUpstox" /\ ev.ok
    /\ FreshEntry(Get(latestUpstoxData, selectedIndex))
    /\ NoFastPoint(latestUpstoxData[selectedIndex])
    /\ Len(chart.values) > 0
    /\ Truthy(Get(nseBaseChart, selectedIndex))

\* C30: no handler raises; a card whose elements are not on the page, a text
\* of the detail panel whose element is not on the page and a chart that is
\* not on the page are never written; and a fast poll that finds the selected
\* index fresh writes the value of every card of its payload that is on the
\* page, the value of the detail panel if its element is on the page, and the
\* chart if it is on the page, whatever else is missing.
C30_MissingDomTolerated ==
    /\ "threw" \in DOMAIN ev => ~ev.threw
    /\ \A key \in Entities \ cardEls : cards[key] = NullObj
    /\ \A field \in DOMAIN detail : DetailEl(field) \in detailEls
    /\ ~chartWidget => Len(chart.values) = 0
    /\ (/\ ev.op = "pollUpstox" /\ ev.ok
        /\ FreshEntry(Get(latestUpstoxData, selectedIndex))) =>
           /\ \A key \in DOMAIN latestUpstoxData \cap cardEls :
                 /\ cards[key] # NullObj
                 /\ cards[key].value = FieldOr0(latestUpstoxData[key], "value")
           /\ "value" \in detailEls =>
                 /\ "value" \in DOMAIN detail
                 /\ detail.value = FieldOr0(latestUpstoxData[selectedIndex], "value")
           /\ "name" \in detailEls =>
                 /\ "key" \in DOMAIN detail
                 /\ detail.key = selectedIndex
           /\ chartWidget => Len(chart.values) > 0

\* a fast poll has written the change and the open of the detail panel on a
\* page that has the card of banknifty and these two elements and nothing
\* else of the module's targets
C30_Witness ==
    /\ ev.op = "pollUpstox" /\ ev.ok
    /\ FreshEntry(Get(latestUpstoxData, selectedIndex))
    /\ ~chartWidget
    /\ cardEls = {"banknifty"}
    /\ cards["banknifty"] # NullObj
    /\ cards["nifty50"] = NullObj
    /\ DOMAIN detail = {"change", "pct", "open"}

\* C31: stop() leaves every call that awaits a fetch suspended, and a fast
\* poll whose fetch succeeds while the updater is stopped stores its payload
\* as the snapshot and, when the selected index is fresh in it, writes the
\* detail panel from it.
C31_LateResponseAfterStop ==
    [][/\ ev'.op = "stop" => pending' = pending
       /\ (~isRunning /\ ev'.op = "pollUpstox" /\ ev'.ok) =>
              /\ latestUpstoxData' = backend.fast
              /\ FreshEntry(Get(backend.fast, selectedIndex)) =>
                    /\ detail' # NullObj
                    /\ detail'.key = selectedIndex
                    /\ detail'.value = FieldOr0(backend.fast[selectedIndex], "value")
      ]_vars

\* the fast poll of a timer has completed after stop() cleared the timers,
\* and the snapshot and the display hold its payload
C31_Witness ==
    /\ ~isRunning
    /\ timers = {}
    /\ ev.op = "pollUpstox" /\ ev.from = "timer" /\ ev.ok
    /\ latestUpstoxData = backend.fast
    /\ detail # NullObj
    /\ Len(chart.values) > 0

\* the timers a step has created
NewTimers == timers' \ timers

\* C32: every start() that passes its guard, the first and every later one,
\* begins with the slow chart fetch for the selected index, goes on with the
\* slow price poll when that fetch has settled, then with the fast poll, and
\* creates its three timers, one per source, in the step in which the fast
\* poll settles without raising; no other step creates a timer.
C32_StartOrdering ==
    [][/\ (ev'.op = "start" /\ ev'.ran) =>
              /\ pending' = pending (+) SetToBag({StartChartTask(selectedIndex)})
              /\ timers' = timers
       /\ ev'.op = "startChart" =>
              /\ ev'.key \in Entities
              /\ pending' = (pending (-) SetToBag({StartChartTask(ev'.key)}))
                               (+) SetToBag({StartPricesTask})
              /\ timers' = timers
       /\ (ev'.op = "pollNsePrices" /\ ev'.from = "start") =>
              /\ ~ev'.threw =>
                    pending' = (pending (-) SetToBag({StartPricesTask}))
                                  (+) SetToBag({StartUpstoxTask})
              /\ timers' = timers
       /\ (ev'.op = "pollUpstox" /\ ev'.from = "start" /\ ~ev'.threw) =>
              /\ pending' = pending (-) SetToBag({StartUpstoxTask})
              /\ timers \subseteq timers'
              /\ Cardinality(NewTimers) = 3
              /\ {t.kind : t \in NewTimers} = {"nsePrice", "nseChart", "upstox"}
              /\ {t.id : t \in NewTimers} = {nsePriceTimer', nseChartTimer', upstoxTimer'}
       /\ NewTimers # {} => (ev'.op = "pollUpstox" /\ ev'.from = "start")
      ]_vars

\* a start() after a stop() has gone through its three loads and has just
\* created its timers
C32_Witness ==
    /\ listeners = 2
    /\ isRunning
    /\ ev.op = "pollUpstox" /\ ev.from = "start"
    /\ Count(StartOps) = 0
    /\ Cardinality(timers) = 3
    /\ {t.id : t \in timers} = {nsePriceTimer, nseChartTimer, upstoxTimer}

\* C33: when the listener of a click on the card of E has got the chart
\* response, E being still selected, the display is rendered from the cached
\* snapshots: with a fresh fast history cached for E the detail panel shows
\* the fast value and the chart is the fast points spliced onto the cached
\* base; otherwise the chart is the slow series of the response and the
\* detail panel shows the cached slow price entry, or the figures of the
\* response when none is cached.
C33_ClickDrivenRefresh ==
    (ev.op = "clickDone" /\ ev.ok /\ ~ev.threw /\ selectedIndex = ev.task.key) =>
        LET E == ev.task.key
            fast == Get(latestUpstoxData, E)
            slow == Get(latestNseData, E)
            series == backend.chart[E].series
        IN  IF FreshEntry(fast)
            THEN /\ detail # NullObj
                 /\ detail.key = E
                 /\ detail.value = FieldOr0(fast, "value")
                 /\ Len(FastPoints(fast.history)) > 0 =>
                       ChartPoints = BaseBefore(FastPoints(fast.history)[1][1])
                                        \o FastPoints(fast.history)
            ELSE /\ Len(NseValues(series)) > 0 =>
                       /\ chart.labels = NseLabels(series)
                       /\ chart.values = NseValues(series)
                 /\ detail # NullObj
                 /\ detail.key = E
                 /\ detail.value = IF Truthy(slow) THEN FieldOr0(slow, "value")
                                   ELSE FieldOr0(backend.chart[E], "close")

\* C36: a card carries one click listener, whatever number of stop() and
\* start() calls there has been, so that a click begins one listener run and
\* one chart fetch.
C36_OneHandlerPerCard ==
    /\ listeners <= 1
    /\ ev.op = "click" => Count({"click"}) <= 1

\* C37: the selection is 'nifty50' after construction, always names an index
\* of the card map, and changes only in the step of a click on a card, to the
\* index of that card; start(), stop(), the polls and the completions of
\* fetches leave it as it is.
C37_SelectionState ==
    [][/\ ev.op = "new" => selectedIndex = "nifty50"
       /\ selectedIndex \in Entities /\ selectedIndex' \in Entities
       /\ ev'.op = "click" => selectedIndex' = ev'.key
       /\ ev'.op # "click" => selectedIndex' = selectedIndex
      ]_vars

\* the card of banknifty was clicked, the updater was stopped, and the
\* start() after that has just gone past its guard with banknifty selected
C37_Witness ==
    /\ selectedIndex = "banknifty"
    /\ listeners = 2
    /\ isRunning
    /\ ev = [op |-> "start", ran |-> TRUE]
    /\ StartChartTask("banknifty") \in BagToSet(pending)

\* C38: after a slow chart poll that got a payload with points of the
\* session, the cached base chart and day OHLC of the polled index are those
\* of the payload, and the chart shows the fast points of the selected index
\* spliced onto its cached base when the cached fast history of the selected
\* index is fresh, and the slow series of the payload otherwise.
C38_SlowChartPollWithFreshFast ==
    (ev.op = "pollNseChart" /\ ev.ok /\ ~ev.threw) =>
        LET series == backend.chart[ev.key].series
            fast == Get(latestUpstoxData, selectedIndex)
        IN  Len(NseValues(series)) > 0 =>
                /\ Get(nseBaseChart, ev.key) =
                       [labels |-> NseLabels(series), values |-> NseValues(series)]
                /\ Truthy(Get(nseChartOhlc, ev.key))
                /\ Get(Get(nseChartOhlc, ev.key), "open") =
                       Nullish(Get(backend.chart[ev.key], "open"),
                               Num(NseValues(series)[1]))
                /\ IF FreshEntry(fast) /\ Len(FastPoints(fast.history)) > 0
                   THEN ChartPoints = BaseBefore(FastPoints(fast.history)[1][1])
                                         \o FastPoints(fast.history)
                   ELSE /\ chart.labels = NseLabels(series)
                        /\ chart.values = NseValues(series)

\* C39: when a chart response with points of the session has been processed,
\* the base chart and the day OHLC of the index are cached, whether the page
\* has the chart or not.
C39_CacheWithoutChartWidget ==
    (SlowDone(ev) /\ Len(Kept(backend.chart[ev.key].series)) > 0) =>
        /\ Truthy(Get(nseBaseChart, selectedIndex))
        /\ Truthy(Get(nseChartOhlc, selectedIndex))

\* C40: the labels and the values of the rendered chart have the same
\* length; every cached base chart has as many labels as values and at
\* least one; and an index has a cached base chart exactly when it has a
\* cached day OHLC.
C40_ParallelSequences ==
    /\ Len(chart.labels) = Len(chart.values)
    /\ \A E \in DOMAIN nseBaseChart :
          /\ Len(nseBaseChart[E].labels) = Len(nseBaseChart[E].values)
          /\ Len(nseBaseChart[E].labels) > 0
    /\ DOMAIN nseBaseChart = DOMAIN nseChartOhlc

\* a series with a point outside the session was cached without it, and the
\* chart shows the fast point spliced onto the cached base
C40_Witness ==
    /\ ev.op = "pollUpstox" /\ ev.ok
    /\ "nifty50" \in DOMAIN nseBaseChart
    /\ Len(nseBaseChart["nifty50"].labels) < Len(backend.chart["nifty50"].series)
    /\ Len(nseBaseChart["nifty50"].labels) >= 1
    /\ Len(chart.labels) > Len(nseBaseChart["nifty50"].labels)
    /\ "nifty50" \in DOMAIN nseChartOhlc

\* the snapshots, caches and display of two memories are the same
SameMem(a, b) ==
    [a EXCEPT !.threw = FALSE, !.wrote = {}] = [b EXCEPT !.threw = FALSE, !.wrote = {}]

\* C34: when a poll has processed a payload, processing the same payload
\* once more by the same poll, with the same selection and the same state of
\* the other sources, changes no snapshot, no cache and nothing displayed.
C34_PipelineIdempotent ==
    /\ (ev.op = "pollUpstox" /\ ev.ok) =>
           SameMem(pollUpstox(Mem, selectedIndex, backend.fast), Mem)
    /\ (ev.op = "pollNsePrices" /\ ev.ok) =>
           SameMem(pollNsePrices(Mem, selectedIndex, backend.nse), Mem)
    /\ (ev.op = "pollNseChart" /\ ev.ok) =>
           SameMem(pollNseChart(Mem, selectedIndex, backend.chart[ev.key]), Mem)

\* a slow chart poll has cached the base and rendered the fresh fast points
\* of the selected index spliced onto it
C34_Witness ==
    /\ ev.op = "pollNseChart" /\ ev.ok
    /\ FreshEntry(Get(latestUpstoxData, selectedIndex))
    /\ Truthy(Get(nseBaseChart, selectedIndex))
    /\ Len(chart.labels) > Len(UpstoxLabels(latestUpstoxData[selectedIndex].history))
    /\ detail # NullObj

\* the handler that ran last was a fast poll, or a slow price poll, that got
\* a payload
FastAnswered == ev.op = "pollUpstox" /\ ev.ok
SlowAnswered == ev.op = "pollNsePrices" /\ ev.ok

\* the handler that ran last was a poll that wrote the card of E
CardWritten(E) == ev.op \in {"pollUpstox", "pollNsePrices"} /\ E \in ev.cards

\* C35: if fast polls and slow price polls keep getting payloads, the card
\* of every index that both payloads list is written again and again by one
\* of the two polls.
C35_NoCardStarvation ==
    \A E \in Entities :
        ([]<>FastAnswered /\ []<>SlowAnswered) =>
            []<>(E \in DOMAIN backend.fast \cap DOMAIN backend.nse => CardWritten(E))

====
